---------------------------- MODULE Spec2Model ----------------------------
(***************************************************************************)
(* apiauth: signing and verifying HTTP requests (ApiAuth scheme).          *)
(*                                                                         *)
(* A Go string is a sequence of bytes: here a sequence of ASCII codes, so  *)
(* that prefix tests, byte slicing, splitting, joining, upper-casing and   *)
(* percent-encoding are computed as the code computes them.                *)
(*   "APIAuth " = <<65,80,73,65,117,116,104,32>>   ":" = 58   "," = 44      *)
(*   "/" = 47   "?" = 63   " " = 32   "%" = 37   "+" = 43                   *)
(*                                                                         *)
(* The source tree holds the package in two revisions.  The model follows  *)
(* the full one (Sign, SignWithMethod, Verify, Parse, VerifySignature and  *)
(* both canonical strings), which the tests and the README go with.  The   *)
(* earlier one has Sign only, a Verify that returns nil, and a             *)
(* CanonicalString over URL.Path with no "/" for an empty path.            *)
(***************************************************************************)
EXTENDS Integers, Sequences, FiniteSets, TLC

VARIABLES req, op, arg, err, out, signed

vars == <<req, op, arg, err, out, signed>>

(***************************************************************************)
(* Bounds of the model.                                                    *)
(***************************************************************************)
\* longest text after the scheme prefix that Parse is given
MaxRest == 4
\* longest URL path CanonicalString is given
MaxPath == 2

(***************************************************************************)
(* Byte constants of the source.                                           *)
(***************************************************************************)
Colon == 58
Comma == 44
Slash == 47
QMark == 63

EmptyStr == << >>

\* the literal "APIAuth " of strings.HasPrefix(header, "APIAuth ") and of
\* fmt.Sprintf("APIAuth %s:%s", ...)
APIAuthPrefix == <<65, 80, 73, 65, 117, 116, 104, 32>>

(***************************************************************************)
(* The error values the package returns (fmt.Errorf texts; the malformed   *)
(* header text is followed by the header itself in the code).              *)
(***************************************************************************)
NilErr == "nil"
ErrNoDate == "No Date header present"
ErrNoContentType == "No Content-Type header present"
ErrNoContentMD5 == "No Content-MD5 header present"
ErrAlreadyPresent == "Authorization header already present"
ErrNotSet == "Authorization header not set"
ErrMalformed == "Malformed header"
ErrMismatch == "Signature mismatch"

(***************************************************************************)
(* strings.* of the Go standard library, as used by the package.           *)
(***************************************************************************)
\* strings.HasPrefix(s, prefix)
HasPrefix(s, prefix) ==
    /\ Len(s) >= Len(prefix)
    /\ SubSeq(s, 1, Len(prefix)) = prefix

\* s[n:]
SliceFrom(s, n) == SubSeq(s, n + 1, Len(s))

\* strings.Split(s, sep) for a one-byte separator: n separators give n+1
\* tokens, the empty string gives one empty token.
RECURSIVE SplitAcc(_, _, _)
SplitAcc(s, sep, cur) ==
    IF s = EmptyStr THEN <<cur>>
    ELSE IF Head(s) = sep THEN <<cur>> \o SplitAcc(Tail(s), sep, EmptyStr)
    ELSE SplitAcc(Tail(s), sep, Append(cur, Head(s)))

Split(s, sep) == SplitAcc(s, sep, EmptyStr)

\* strings.Join(elems, sep) for a one-byte separator
RECURSIVE Join(_, _)
Join(elems, sep) ==
    IF elems = << >> THEN EmptyStr
    ELSE IF Len(elems) = 1 THEN elems[1]
    ELSE elems[1] \o <<sep>> \o Join(Tail(elems), sep)

\* strings.ToUpper on ASCII text: a..z become A..Z
UpperByte(c) == IF c >= 97 /\ c <= 122 THEN c - 32 ELSE c

ToUpper(s) == [i \in 1..Len(s) |-> UpperByte(s[i])]


(***************************************************************************)
(* URL.EscapedPath of net/url, which CanonicalString calls: RawPath       *)
(* when it is a valid encoding of Path, otherwise Path percent-encoded in  *)
(* path mode ("*" is left alone).                                          *)
(***************************************************************************)
IsAlnum(c) == (c >= 48 /\ c <= 57) \/ (c >= 65 /\ c <= 90) \/ (c >= 97 /\ c <= 122)

IsHex(c) == (c >= 48 /\ c <= 57) \/ (c >= 65 /\ c <= 70) \/ (c >= 97 /\ c <= 102)

UnHex(c) ==
    IF c >= 48 /\ c <= 57 THEN c - 48
    ELSE IF c >= 97 /\ c <= 102 THEN c - 97 + 10
    ELSE c - 65 + 10

\* "0123456789ABCDEF"[n]
UpperHex(n) == IF n < 10 THEN 48 + n ELSE 65 + (n - 10)

\* shouldEscape(c, encodePath): unreserved bytes and $ & + , / : ; = @ are
\* kept, "?" and every other byte is escaped.
ShouldEscape(c) ==
    IF IsAlnum(c) THEN FALSE
    ELSE IF c \in {45, 95, 46, 126} THEN FALSE
    ELSE IF c \in {36, 38, 43, 44, 47, 58, 59, 61, 63, 64} THEN c = QMark
    ELSE TRUE

\* escape(s, encodePath)
RECURSIVE Escape(_)
Escape(s) ==
    IF s = EmptyStr THEN EmptyStr
    ELSE IF ShouldEscape(Head(s))
         THEN <<37, UpperHex(Head(s) \div 16), UpperHex(Head(s) % 16)>> \o Escape(Tail(s))
         ELSE <<Head(s)>> \o Escape(Tail(s))

\* validEncoded(s, encodePath)
ValidEncoded(s) ==
    \A i \in 1..Len(s) :
        \/ s[i] \in {33, 36, 38, 39, 40, 41, 42, 43, 44, 59, 61, 58, 64}
        \/ s[i] \in {91, 93}
        \/ s[i] = 37
        \/ ~ShouldEscape(s[i])

\* unescape(s, encodePath) returns no error
RECURSIVE UnescapeOk(_)
UnescapeOk(s) ==
    IF s = EmptyStr THEN TRUE
    ELSE IF Head(s) = 37
         THEN /\ Len(s) >= 3
              /\ IsHex(s[2])
              /\ IsHex(s[3])
              /\ UnescapeOk(SliceFrom(s, 3))
         ELSE UnescapeOk(Tail(s))

\* unescape(s, encodePath), for s with UnescapeOk(s)
RECURSIVE Unescape(_)
Unescape(s) ==
    IF s = EmptyStr THEN EmptyStr
    ELSE IF Head(s) = 37
         THEN <<UnHex(s[2]) * 16 + UnHex(s[3])>> \o Unescape(SliceFrom(s, 3))
         ELSE <<Head(s)>> \o Unescape(Tail(s))

EscapedPath(r) ==
    IF /\ r.RawPath # EmptyStr
       /\ ValidEncoded(r.RawPath)
       /\ UnescapeOk(r.RawPath)
       /\ Unescape(r.RawPath) = r.Path
    THEN r.RawPath
    ELSE IF r.Path = <<42>> THEN <<42>>
    ELSE Escape(r.Path)

(***************************************************************************)
(* http.Header: Get returns "" for an absent header, Set replaces it.      *)
(***************************************************************************)
HeaderNames == {"Date", "Content-Type", "Content-MD5", "Authorization"}

NoHeaders == [h \in HeaderNames |-> EmptyStr]

HeaderGet(r, name) == r.Header[name]

HeaderSet(r, name, value) == [r EXCEPT !.Header[name] = value]

(***************************************************************************)
(* The package's functions.                                                *)
(***************************************************************************)
\* A faulty variant, CanonicalString as the package's first revision had it: URL.Path as it
\* is, no "/" for an empty path.
CanonicalString_NoSlash(r) ==
    LET uri == IF r.RawQuery # EmptyStr THEN r.Path \o <<QMark>> \o r.RawQuery ELSE r.Path
    IN  Join(<<HeaderGet(r, "Content-Type"), HeaderGet(r, "Content-MD5"),
               uri, HeaderGet(r, "Date")>>, Comma)

CanonicalString(r) ==
    LET uri0 == EscapedPath(r)
        uri1 == IF uri0 = EmptyStr THEN <<Slash>> ELSE uri0
        uri  == IF r.RawQuery # EmptyStr THEN uri1 \o <<QMark>> \o r.RawQuery ELSE uri1
    IN  Join(<<HeaderGet(r, "Content-Type"), HeaderGet(r, "Content-MD5"),
               uri, HeaderGet(r, "Date")>>, Comma)

CanonicalStringWithMethod(r) ==
    Join(<<ToUpper(r.Method), CanonicalString(r)>>, Comma)

\* Compute is base64(HMAC-SHA1(secret, canonicalString)): a non-empty text
\* over the base64 alphabet, taken as collision-free.  The digest is
\* modelled by an injective code over that alphabet: each byte of the key
\* and of the message as two letters A..P, the two parts joined by "+".
RECURSIVE B64Code(_)
B64Code(s) ==
    IF s = EmptyStr THEN EmptyStr
    ELSE <<65 + (Head(s) \div 16), 65 + (Head(s) % 16)>> \o B64Code(Tail(s))

Compute(canonicalString, secret) ==
    B64Code(secret) \o <<43>> \o B64Code(canonicalString)

VerifySignature(sig, canonicalString, secret) ==
    LET expected == Compute(canonicalString, secret)
    IN  expected = sig

\* A faulty variant: Content-MD5 is looked at before Content-Type.
sufficientHeaders_MD5First(r) ==
    IF HeaderGet(r, "Date") = EmptyStr THEN ErrNoDate
    ELSE IF r.Body
         THEN IF HeaderGet(r, "Content-MD5") = EmptyStr THEN ErrNoContentMD5
              ELSE IF HeaderGet(r, "Content-Type") = EmptyStr THEN ErrNoContentType
              ELSE NilErr
         ELSE NilErr

sufficientHeaders(r) ==
    IF HeaderGet(r, "Date") = EmptyStr THEN ErrNoDate
    ELSE IF r.Body
         THEN IF HeaderGet(r, "Content-Type") = EmptyStr THEN ErrNoContentType
              ELSE IF HeaderGet(r, "Content-MD5") = EmptyStr THEN ErrNoContentMD5
              ELSE NilErr
         ELSE NilErr

\* A faulty variant: empty tokens are let through.
Parse_EmptyTokens(header) ==
    IF ~HasPrefix(header, APIAuthPrefix)
    THEN [id |-> EmptyStr, sig |-> EmptyStr, err |-> ErrMalformed]
    ELSE LET tokens == Split(SliceFrom(header, 8), Colon)
         IN  IF Len(tokens) # 2
             THEN [id |-> EmptyStr, sig |-> EmptyStr, err |-> ErrMalformed]
             ELSE [id |-> tokens[1], sig |-> tokens[2], err |-> NilErr]

\* A faulty variant: the scheme is compared without regard to case.
Parse_AnyCase(header) ==
    IF ~HasPrefix(ToUpper(header), ToUpper(APIAuthPrefix))
    THEN [id |-> EmptyStr, sig |-> EmptyStr, err |-> ErrMalformed]
    ELSE LET tokens == Split(SliceFrom(header, 8), Colon)
         IN  IF Len(tokens) # 2 \/ tokens[1] = EmptyStr \/ tokens[2] = EmptyStr
             THEN [id |-> EmptyStr, sig |-> EmptyStr, err |-> ErrMalformed]
             ELSE [id |-> tokens[1], sig |-> tokens[2], err |-> NilErr]

Parse(header) ==
    IF ~HasPrefix(header, APIAuthPrefix)
    THEN [id |-> EmptyStr, sig |-> EmptyStr, err |-> ErrMalformed]
    ELSE LET tokens == Split(SliceFrom(header, 8), Colon)
         IN  IF Len(tokens) # 2 \/ tokens[1] = EmptyStr \/ tokens[2] = EmptyStr
             THEN [id |-> EmptyStr, sig |-> EmptyStr, err |-> ErrMalformed]
             ELSE [id |-> tokens[1], sig |-> tokens[2], err |-> NilErr]

\* fmt.Sprintf("APIAuth %s:%s", accessID, sig)
AuthorizationValue(accessID, sig) == APIAuthPrefix \o accessID \o <<Colon>> \o sig

\* A faulty variant: no look at the Authorization header already there.
Sign_Overwrites(r, accessID, secret) ==
    IF sufficientHeaders(r) # NilErr
    THEN [req |-> r, err |-> sufficientHeaders(r)]
    ELSE LET sig == Compute(CanonicalString(r), secret)
         IN  [req |-> HeaderSet(r, "Authorization", AuthorizationValue(accessID, sig)),
              err |-> NilErr]

\* A faulty variant: the header is written before the checks are made.
Sign_SetsBeforeChecks(r, accessID, secret) ==
    LET sig == Compute(CanonicalString(r), secret)
        set == HeaderSet(r, "Authorization", AuthorizationValue(accessID, sig))
    IN  IF sufficientHeaders(r) # NilErr
        THEN [req |-> set, err |-> sufficientHeaders(r)]
        ELSE IF HeaderGet(r, "Authorization") # EmptyStr
        THEN [req |-> r, err |-> ErrAlreadyPresent]
        ELSE [req |-> set, err |-> NilErr]

Sign(r, accessID, secret) ==
    IF sufficientHeaders(r) # NilErr
    THEN [req |-> r, err |-> sufficientHeaders(r)]
    ELSE IF HeaderGet(r, "Authorization") # EmptyStr
    THEN [req |-> r, err |-> ErrAlreadyPresent]
    ELSE LET sig == Compute(CanonicalString(r), secret)
         IN  [req |-> HeaderSet(r, "Authorization", AuthorizationValue(accessID, sig)),
              err |-> NilErr]

\* A faulty variant: the method is signed as written, not upper-cased.
SignWithMethod_RawMethod(r, accessID, secret) ==
    IF sufficientHeaders(r) # NilErr
    THEN [req |-> r, err |-> sufficientHeaders(r)]
    ELSE IF HeaderGet(r, "Authorization") # EmptyStr
    THEN [req |-> r, err |-> ErrAlreadyPresent]
    ELSE LET sig == Compute(Join(<<r.Method, CanonicalString(r)>>, Comma), secret)
         IN  [req |-> HeaderSet(r, "Authorization", AuthorizationValue(accessID, sig)),
              err |-> NilErr]

SignWithMethod(r, accessID, secret) ==
    IF sufficientHeaders(r) # NilErr
    THEN [req |-> r, err |-> sufficientHeaders(r)]
    ELSE IF HeaderGet(r, "Authorization") # EmptyStr
    THEN [req |-> r, err |-> ErrAlreadyPresent]
    ELSE LET sig == Compute(CanonicalStringWithMethod(r), secret)
         IN  [req |-> HeaderSet(r, "Authorization", AuthorizationValue(accessID, sig)),
              err |-> NilErr]

\* A faulty variant: Verify as it was before the method-bound form was added.
Verify_LegacyOnly(r, secret) ==
    IF sufficientHeaders(r) # NilErr THEN sufficientHeaders(r)
    ELSE LET auth == HeaderGet(r, "Authorization")
         IN  IF auth = EmptyStr THEN ErrNotSet
             ELSE LET p == Parse(auth)
                  IN  IF p.err # NilErr THEN p.err
                      ELSE IF VerifySignature(p.sig, CanonicalString(r), secret)
                      THEN NilErr
                      ELSE ErrMismatch

\* A faulty variant: the Authorization header is looked at before the header check.
Verify_AuthorizationFirst(r, secret) ==
    LET auth == HeaderGet(r, "Authorization")
    IN  IF auth = EmptyStr THEN ErrNotSet
        ELSE IF sufficientHeaders(r) # NilErr THEN sufficientHeaders(r)
        ELSE LET p == Parse(auth)
             IN  IF p.err # NilErr THEN p.err
                 ELSE IF \/ VerifySignature(p.sig, CanonicalString(r), secret)
                         \/ VerifySignature(p.sig, CanonicalStringWithMethod(r), secret)
                 THEN NilErr
                 ELSE ErrMismatch

Verify(r, secret) ==
    IF sufficientHeaders(r) # NilErr THEN sufficientHeaders(r)
    ELSE LET auth == HeaderGet(r, "Authorization")
         IN  IF auth = EmptyStr THEN ErrNotSet
             ELSE LET p == Parse(auth)
                  IN  IF p.err # NilErr THEN p.err
                      ELSE IF \/ VerifySignature(p.sig, CanonicalString(r), secret)
                              \/ VerifySignature(p.sig, CanonicalStringWithMethod(r), secret)
                      THEN NilErr
                      ELSE ErrMismatch

(***************************************************************************)
(* The inputs of the model.                                                *)
(***************************************************************************)
\* "get", "GET", "DELETE"
Methods == {<<103, 101, 116>>, <<71, 69, 84>>, <<68, 69, 76, 69, 84, 69>>}

\* "", "/a"
Paths == {EmptyStr, <<Slash, 97>>}

\* "d" stands for a date text
Dates == {EmptyStr, <<100>>}

\* "", "t", "GET,"
ContentTypes == {EmptyStr, <<116>>, <<71, 69, 84, Comma>>}

\* "", "m"
ContentMD5s == {EmptyStr, <<109>>}

\* "", "x", "APIAuth i:"
Authorizations == {EmptyStr, <<120>>, APIAuthPrefix \o <<105, Colon>>}

\* "i", "a:b"
AccessIDs == {<<105>>, <<97, Colon, 98>>}

\* "k", "j"
Secrets == {<<107>>, <<106>>}

HeaderValues(name) ==
    CASE name = "Date" -> Dates
      [] name = "Content-Type" -> ContentTypes
      [] name = "Content-MD5" -> ContentMD5s
      [] name = "Authorization" -> Authorizations

NoArg == [accessID |-> EmptyStr, secret |-> EmptyStr, header |-> EmptyStr]

NoOut == [id |-> EmptyStr, sig |-> EmptyStr, str |-> EmptyStr]

\* History of the Authorization header: base is the value the caller gave
\* it last; by, value, method and secret describe the first signing call
\* that succeeded since then.
NotSigned ==
    [by |-> "none", value |-> EmptyStr, method |-> EmptyStr,
     secret |-> EmptyStr, base |-> EmptyStr]

SignOps == {"Sign", "SignWithMethod"}

(***************************************************************************)
(* The request's life: the caller builds it (http.NewRequest), sets its    *)
(* headers and method, and calls Sign, SignWithMethod and Verify on it.    *)
(***************************************************************************)
Init ==
    /\ req \in [Method : Methods, Path : Paths, RawPath : {EmptyStr},
                RawQuery : {EmptyStr}, Body : BOOLEAN, Header : {NoHeaders}]
    /\ op = "NewRequest"
    /\ arg = NoArg
    /\ err = NilErr
    /\ out = NoOut
    /\ signed = NotSigned

\* req.Header.Set(name, value); the empty value stands for req.Header.Del
SetHeader(name, value) ==
    /\ req' = HeaderSet(req, name, value)
    /\ op' = "SetHeader"
    /\ arg' = NoArg
    /\ err' = NilErr
    /\ out' = NoOut
    /\ signed' = IF name = "Authorization"
                 THEN [NotSigned EXCEPT !.base = value]
                 ELSE signed

\* The request is sent again under another method, its Authorization kept.
SetMethod(m) ==
    /\ req' = [req EXCEPT !.Method = m]
    /\ op' = "SetMethod"
    /\ arg' = NoArg
    /\ err' = NilErr
    /\ out' = NoOut
    /\ UNCHANGED signed

Signed(by, r, secret, res) ==
    IF res.err = NilErr /\ signed.by = "none"
    THEN [signed EXCEPT !.by = by,
                        !.value = HeaderGet(res.req, "Authorization"),
                        !.method = ToUpper(r.Method),
                        !.secret = secret]
    ELSE signed

SignCall(accessID, secret) ==
    LET res == Sign(req, accessID, secret)
    IN  /\ req' = res.req
        /\ err' = res.err
        /\ op' = "Sign"
        /\ arg' = [NoArg EXCEPT !.accessID = accessID, !.secret = secret]
        /\ out' = NoOut
        /\ signed' = Signed("Sign", req, secret, res)

SignWithMethodCall(accessID, secret) ==
    LET res == SignWithMethod(req, accessID, secret)
    IN  /\ req' = res.req
        /\ err' = res.err
        /\ op' = "SignWithMethod"
        /\ arg' = [NoArg EXCEPT !.accessID = accessID, !.secret = secret]
        /\ out' = NoOut
        /\ signed' = Signed("SignWithMethod", req, secret, res)

VerifyCall(secret) ==
    /\ err' = Verify(req, secret)
    /\ op' = "Verify"
    /\ arg' = [NoArg EXCEPT !.secret = secret]
    /\ out' = NoOut
    /\ UNCHANGED <<req, signed>>

Next ==
    \/ \E name \in HeaderNames : \E value \in HeaderValues(name) : SetHeader(name, value)
    \/ \E m \in Methods : SetMethod(m)
    \/ \E accessID \in AccessIDs : \E secret \in Secrets : SignCall(accessID, secret)
    \/ \E accessID \in AccessIDs : \E secret \in Secrets : SignWithMethodCall(accessID, secret)
    \/ \E secret \in Secrets : VerifyCall(secret)

Spec == Init /\ [][Next]_vars

(***************************************************************************)
(* Properties of the request's life (Spec).                                *)
(***************************************************************************)
Auth(r) == HeaderGet(r, "Authorization")

HeaderErrors == {ErrNoDate, ErrNoContentType, ErrNoContentMD5}

ApiOps == {"Sign", "SignWithMethod", "Verify"}

\* the bytes of a text
Bytes(s) == {s[i] : i \in 1..Len(s)}

\* C1: when the header check passes and Parse decodes the Authorization
\* value, Verify succeeds exactly when the decoded signature is
\* Compute(CanonicalString(r), secret) or
\* Compute(CanonicalStringWithMethod(r), secret), and otherwise returns the
\* signature-mismatch error.
C1_VerifyAcceptsEitherForm ==
    (op = "Verify" /\ sufficientHeaders(req) = NilErr /\ Parse(Auth(req)).err = NilErr)
    => LET sig == Parse(Auth(req)).sig
           match == \/ sig = Compute(CanonicalString(req), arg.secret)
                    \/ sig = Compute(CanonicalStringWithMethod(req), arg.secret)
       IN  /\ (err = NilErr) <=> match
           /\ ~match => err = ErrMismatch

\* Verify accepted a signature of the method-bound form that is not one of
\* the legacy form.
C1_Witness ==
    /\ op = "Verify"
    /\ err = NilErr
    /\ Parse(Auth(req)).sig = Compute(CanonicalStringWithMethod(req), arg.secret)
    /\ Parse(Auth(req)).sig # Compute(CanonicalString(req), arg.secret)

\* C2 as stated: after a successful Sign or SignWithMethod of a request
\* with a Date header and no body, with any non-empty access id and key,
\* Verify of the same request under the same key succeeds.
C2_RoundTripAnyId ==
    (/\ op \in SignOps
     /\ err = NilErr
     /\ ~req.Body
     /\ arg.accessID # EmptyStr
     /\ arg.secret # EmptyStr)
    => Verify(req, arg.secret) = NilErr

\* C2 amended: the same, for access ids that contain no ":".
C2_RoundTrip ==
    (/\ op \in SignOps
     /\ err = NilErr
     /\ ~req.Body
     /\ arg.accessID # EmptyStr
     /\ Colon \notin Bytes(arg.accessID)
     /\ arg.secret # EmptyStr)
    => Verify(req, arg.secret) = NilErr

\* SignWithMethod has just signed a body-less request whose method is
\* written in lower case.
C2_Witness ==
    /\ op = "SignWithMethod"
    /\ err = NilErr
    /\ ~req.Body
    /\ Colon \notin Bytes(arg.accessID)
    /\ req.Method # ToUpper(req.Method)
    /\ Auth(req) # EmptyStr

\* C3: a request that carries the Authorization value SignWithMethod wrote
\* under a key, and whose upper-cased method differs from the signed one,
\* is rejected by Verify under that key, whatever its other fields are.
C3_NoCrossVerbReplay ==
    (/\ op = "Verify"
     /\ signed.by = "SignWithMethod"
     /\ Auth(req) = signed.value
     /\ arg.secret = signed.secret
     /\ ToUpper(req.Method) # signed.method)
    => err # NilErr

\* C4 as stated: every signing call made while the Authorization header is
\* non-empty returns the already-present error and leaves the header alone.
C4_AlreadyPresentAlways ==
    [][(op' \in SignOps /\ Auth(req) # EmptyStr)
       => (err' = ErrAlreadyPresent /\ Auth(req') = Auth(req))]_vars

\* C4 amended: the Authorization header is the non-empty value the caller
\* gave it, or else the value the first successful signing call wrote (empty
\* while none has succeeded); a signing call made while the header is
\* non-empty leaves it alone and returns an error: the header check's when
\* that check fails, the already-present error otherwise.
C4_NeverOverwritten ==
    /\ [](Auth(req) = IF signed.base # EmptyStr THEN signed.base ELSE signed.value)
    /\ [][(op' \in SignOps /\ Auth(req) # EmptyStr)
          => /\ Auth(req') = Auth(req)
             /\ err' = IF sufficientHeaders(req) # NilErr
                       THEN sufficientHeaders(req)
                       ELSE ErrAlreadyPresent]_vars

\* A signing call was refused on a request an earlier call had signed.
C4_Witness ==
    /\ op \in SignOps
    /\ err = ErrAlreadyPresent
    /\ signed.by # "none"
    /\ Auth(req) = signed.value
    /\ Auth(req) # AuthorizationValue(arg.accessID, Compute(CanonicalString(req), arg.secret))

\* C5: Sign, SignWithMethod and Verify fail with the missing-Date error
\* when Date is empty, body or not; with Date present and a body, with the
\* missing-Content-Type error when Content-Type is empty and only then with
\* the missing-Content-MD5 error when Content-MD5 is empty; in every other
\* case with none of the three.
C5_HeaderCheck ==
    [][op' \in ApiOps
       => LET date == HeaderGet(req, "Date")
              ct   == HeaderGet(req, "Content-Type")
              md5  == HeaderGet(req, "Content-MD5")
          IN  /\ date = EmptyStr => err' = ErrNoDate
              /\ (date # EmptyStr /\ req.Body /\ ct = EmptyStr) => err' = ErrNoContentType
              /\ (date # EmptyStr /\ req.Body /\ ct # EmptyStr /\ md5 = EmptyStr)
                 => err' = ErrNoContentMD5
              /\ (date # EmptyStr /\ (~req.Body \/ (ct # EmptyStr /\ md5 # EmptyStr)))
                 => err' \notin HeaderErrors]_vars

\* A request with a body, a Date and a Content-MD5 but no Content-Type was
\* refused.
C5_Witness ==
    /\ op \in ApiOps
    /\ req.Body
    /\ HeaderGet(req, "Date") # EmptyStr
    /\ HeaderGet(req, "Content-Type") = EmptyStr
    /\ HeaderGet(req, "Content-MD5") # EmptyStr
    /\ err = ErrNoContentType

\* C9: Verify reports the first failing step: a header check error first,
\* then the missing Authorization header, then the malformed header; the
\* signature mismatch only when all three passed.
C9_VerifyOrder ==
    op = "Verify"
    => LET date == HeaderGet(req, "Date")
           ct   == HeaderGet(req, "Content-Type")
           md5  == HeaderGet(req, "Content-MD5")
           insufficient == \/ date = EmptyStr
                           \/ (req.Body /\ (ct = EmptyStr \/ md5 = EmptyStr))
       IN  /\ insufficient <=> err \in HeaderErrors
           /\ (~insufficient /\ Auth(req) = EmptyStr) => err = ErrNotSet
           /\ (~insufficient /\ Auth(req) # EmptyStr /\ Parse(Auth(req)).err # NilErr)
              => err = ErrMalformed
           /\ err = ErrMismatch
              => (~insufficient /\ Auth(req) # EmptyStr /\ Parse(Auth(req)).err = NilErr)

\* Verify refused, for its missing Date, a request that carries the
\* Authorization value a signing call wrote under the same key.
C9_Witness ==
    /\ op = "Verify"
    /\ HeaderGet(req, "Date") = EmptyStr
    /\ signed.by # "none"
    /\ Auth(req) = signed.value
    /\ arg.secret = signed.secret
    /\ err = ErrNoDate

\* C10: a signing call that returns an error leaves the request as it was,
\* a successful one changes the Authorization header and nothing else, and
\* Verify never changes the request.
C10_OnlyAuthorizationChanges ==
    [][/\ (op' \in SignOps /\ err' # NilErr) => req' = req
       /\ (op' \in SignOps /\ err' = NilErr)
          => /\ Auth(req) = EmptyStr
             /\ Auth(req') # EmptyStr
             /\ req' = HeaderSet(req, "Authorization", Auth(req'))
       /\ op' = "Verify" => req' = req]_vars

\* A signing call failed on a request without Authorization header, which
\* still has none.
C10_Witness ==
    /\ op \in SignOps
    /\ err # NilErr
    /\ Auth(req) = EmptyStr
    /\ HeaderGet(req, "Content-Type") # EmptyStr

(***************************************************************************)
(* Parse on its own (SpecParse): the header values are a scheme prefix     *)
(* followed by every text of at most MaxRest bytes over ":", " ", "m", "s". *)
(***************************************************************************)
\* all texts over an alphabet, of at most n bytes
Texts(alphabet, n) == UNION {[1..k -> alphabet] : k \in 0..n}

RestAlphabet == {Colon, 32, 109, 115}

\* "APIAuth ", "APIAuth", "apiauth ", "APIAUTH ", ""
ParsePrefixes ==
    {APIAuthPrefix,
     <<65, 80, 73, 65, 117, 116, 104>>,
     <<97, 112, 105, 97, 117, 116, 104, 32>>,
     <<65, 80, 73, 65, 85, 84, 72, 32>>,
     EmptyStr}

ParseInputs == {p \o t : p \in ParsePrefixes, t \in Texts(RestAlphabet, MaxRest)}

\* a request as http.NewRequest("GET", "http://example.com", nil) gives it
BlankRequest ==
    [Method |-> <<71, 69, 84>>, Path |-> EmptyStr, RawPath |-> EmptyStr,
     RawQuery |-> EmptyStr, Body |-> FALSE, Header |-> NoHeaders]

InitParse ==
    /\ req = BlankRequest
    /\ op = "input"
    /\ arg \in {[NoArg EXCEPT !.header = h] : h \in ParseInputs}
    /\ err = NilErr
    /\ out = NoOut
    /\ signed = NotSigned

ParseCall ==
    /\ op = "input"
    /\ op' = "Parse"
    /\ LET p == Parse(arg.header)
       IN  /\ out' = [NoOut EXCEPT !.id = p.id, !.sig = p.sig]
           /\ err' = p.err
    /\ UNCHANGED <<req, arg, signed>>

NextParse == ParseCall

SpecParse == InitParse /\ [][NextParse]_vars

\* h is "APIAuth " followed by a text whose only ":" is at position k, with
\* at least one byte on each side of it
WellFormedAt(h, k) ==
    /\ Len(h) >= 8
    /\ SubSeq(h, 1, 8) = APIAuthPrefix
    /\ k >= 10
    /\ k < Len(h)
    /\ h[k] = Colon
    /\ \A j \in 9..Len(h) : h[j] = Colon => j = k

\* C6: Parse succeeds exactly on "APIAuth " followed by two non-empty parts
\* with a single ":" between them, and then returns the two parts; in every
\* other case it returns the malformed-header error and two empty texts.
C6_Parse ==
    op = "Parse"
    => LET h == arg.header
       IN  /\ (err = NilErr) <=> (\E k \in 1..Len(h) : WellFormedAt(h, k))
           /\ \A k \in 1..Len(h) :
                 WellFormedAt(h, k)
                 => /\ out.id = SubSeq(h, 9, k - 1)
                    /\ out.sig = SubSeq(h, k + 1, Len(h))
           /\ err # NilErr
              => (err = ErrMalformed /\ out.id = EmptyStr /\ out.sig = EmptyStr)

\* Parse("APIAuth m:s") gave ("m", "s").
C6_Witness ==
    /\ op = "Parse"
    /\ arg.header = APIAuthPrefix \o <<109, Colon, 115>>
    /\ err = NilErr
    /\ out.id = <<109>>
    /\ out.sig = <<115>>

\* more than one space after "APIAuth"
MoreThanOneSpace(h) ==
    /\ Len(h) >= 9
    /\ SubSeq(h, 1, 8) = APIAuthPrefix
    /\ h[9] = 32

\* a space at either end of the access id or of the signature
SpaceAround(h) ==
    /\ Len(h) >= 9
    /\ SubSeq(h, 1, 8) = APIAuthPrefix
    /\ \/ h[9] = 32
       \/ h[Len(h)] = 32
       \/ \E k \in 9..Len(h) :
             /\ h[k] = Colon
             /\ \/ (k > 9 /\ h[k - 1] = 32)
                \/ (k < Len(h) /\ h[k + 1] = 32)

ManyColons(h) == Cardinality({j \in 1..Len(h) : h[j] = Colon}) > 1

\* the scheme token is "APIAuth" in another case
OtherCase(h) ==
    /\ Len(h) >= 7
    /\ SubSeq(h, 1, 7) # SubSeq(APIAuthPrefix, 1, 7)
    /\ ToUpper(SubSeq(h, 1, 7)) = ToUpper(SubSeq(APIAuthPrefix, 1, 7))

\* C7 as stated: a header value with more than one space after "APIAuth",
\* with a space around the access id or the signature, with more than one
\* ":" or with the scheme in another case is rejected.
C7_NoTolerance ==
    (/\ op = "Parse"
     /\ \/ MoreThanOneSpace(arg.header)
        \/ SpaceAround(arg.header)
        \/ ManyColons(arg.header)
        \/ OtherCase(arg.header))
    => err = ErrMalformed

\* C7 amended: a header value with more than one ":" or with the scheme in
\* another case is rejected; spaces after the prefix and around the access
\* id or the signature are not: where the text after the prefix has a single
\* ":" with a part on each side, the value is accepted and the spaces are
\* returned as bytes of the access id or of the signature.
C7_ColonsAndCase ==
    op = "Parse"
    => LET h == arg.header
       IN  /\ (ManyColons(h) \/ OtherCase(h)) => err = ErrMalformed
           /\ ((MoreThanOneSpace(h) \/ SpaceAround(h))
               /\ \E k \in 1..Len(h) : WellFormedAt(h, k))
              => /\ err = NilErr
                 /\ out.id \o <<Colon>> \o out.sig = SliceFrom(h, 8)

\* Parse("APIAuth  m:s"), with two spaces, gave the access id " m".
C7_Witness ==
    /\ op = "Parse"
    /\ MoreThanOneSpace(arg.header)
    /\ err = NilErr
    /\ out.id = <<32, 109>>
    /\ out.sig = <<115>>

(***************************************************************************)
(* The canonical strings on their own (SpecCanon): the paths are every     *)
(* text of at most MaxPath bytes over "/", "a", " ", "?".                   *)
(***************************************************************************)
PathAlphabet == {Slash, 97, 32, QMark}

CanonPaths == Texts(PathAlphabet, MaxPath)

\* "", "/%61", "%2"
CanonRawPaths == {EmptyStr, <<Slash, 37, 54, 49>>, <<37, 50>>}

\* "", "x=1"
CanonQueries == {EmptyStr, <<120, 61, 49>>}

CanonHeaders ==
    {[h \in HeaderNames |->
         CASE h = "Date" -> d
           [] h = "Content-Type" -> ct
           [] h = "Content-MD5" -> md5
           [] h = "Authorization" -> EmptyStr] :
     d \in Dates, ct \in {EmptyStr, <<116>>}, md5 \in ContentMD5s}

InitCanon ==
    /\ req \in [Method : Methods, Path : CanonPaths, RawPath : CanonRawPaths,
                RawQuery : CanonQueries, Body : {FALSE}, Header : CanonHeaders]
    /\ op = "input"
    /\ arg = NoArg
    /\ err = NilErr
    /\ out = NoOut
    /\ signed = NotSigned

CanonicalStringCall ==
    /\ op = "input"
    /\ op' = "CanonicalString"
    /\ out' = [NoOut EXCEPT !.str = CanonicalString(req)]
    /\ UNCHANGED <<req, arg, err, signed>>

CanonicalStringWithMethodCall ==
    /\ op = "input"
    /\ op' = "CanonicalStringWithMethod"
    /\ out' = [NoOut EXCEPT !.str = CanonicalStringWithMethod(req)]
    /\ UNCHANGED <<req, arg, err, signed>>

NextCanon ==
    \/ CanonicalStringCall
    \/ CanonicalStringWithMethodCall

SpecCanon == InitCanon /\ [][NextCanon]_vars

\* the four fields, with a given path text, written out
FourFields(r, path) ==
    HeaderGet(r, "Content-Type") \o <<Comma>> \o HeaderGet(r, "Content-MD5") \o <<Comma>>
    \o (IF path = EmptyStr THEN <<Slash>> ELSE path)
    \o (IF r.RawQuery = EmptyStr THEN EmptyStr ELSE <<QMark>> \o r.RawQuery)
    \o <<Comma>> \o HeaderGet(r, "Date")

\* C8 as stated: the URI field is the request's path.
C8_UriIsPath ==
    /\ op = "CanonicalString" => out.str = FourFields(req, req.Path)
    /\ op = "CanonicalStringWithMethod"
       => out.str = ToUpper(req.Method) \o <<Comma>> \o FourFields(req, req.Path)

\* no RawPath, and no byte of the path is one that a URL path escapes
PlainPath(r) ==
    /\ r.RawPath = EmptyStr
    /\ \A c \in Bytes(r.Path) : ~ShouldEscape(c)

\* C8 amended: the URI field is the request's escaped path
\* (URL.EscapedPath(): the path with the bytes a URL path cannot hold
\* percent-encoded, or RawPath when that is a valid encoding of the path),
\* which is the path itself when the path has no such byte and there is no
\* RawPath; the rest as stated.  (No field of the inputs holds a ",", so the
\* URI field is the third token of the string.)
C8_Canonical ==
    /\ op = "CanonicalString" => out.str = FourFields(req, EscapedPath(req))
    /\ op = "CanonicalStringWithMethod"
       => out.str = ToUpper(req.Method) \o <<Comma>> \o FourFields(req, EscapedPath(req))
    /\ (op = "CanonicalString" /\ PlainPath(req)) => out.str = FourFields(req, req.Path)
    /\ op = "CanonicalString"
       => Split(out.str, Comma)[3] # EmptyStr

\* CanonicalString of a request with an empty path, a query and no
\* Content-Type: the URI field is "/?x=1".
C8_Witness ==
    /\ op = "CanonicalString"
    /\ req.Path = EmptyStr
    /\ req.RawPath = EmptyStr
    /\ req.RawQuery # EmptyStr
    /\ HeaderGet(req, "Content-Type") = EmptyStr
    /\ HeaderGet(req, "Date") # EmptyStr
    /\ Split(out.str, Comma)[3] = <<Slash, QMark>> \o req.RawQuery

=============================================================================
